---------------------------- MODULE Spec2Model ----------------------------
(***************************************************************************)
(* moonPOS: product catalog, checkout, inventory adjustment and the        *)
(* double-entry ledger, as served by app/main.py.                          *)
(*                                                                         *)
(* Money is a Decimal in the code.  Here an amount is an integer number of *)
(* thousandths of the currency unit, so that a request can carry a value   *)
(* finer than MONEY_STEP and to_money has something to round.              *)
(*                                                                         *)
(* The store is the committed content of the five tables.  Every request   *)
(* runs in a session of its own (get_db) that reads the committed store,   *)
(* keeps its changes to itself and publishes them at commit, or drops them *)
(* when the session is closed without a commit.  The engine is the default *)
(* SQLite one: a read takes no lock, the first INSERT/UPDATE of a session  *)
(* takes the database write lock and keeps it until commit or rollback.    *)
(***************************************************************************)
EXTENDS Integers, Sequences, FiniteSets, TLC

VARIABLES
    products,      \* table products: row id = position
    orders,        \* table orders
    order_items,   \* table order_items
    movements,     \* table inventory_movements
    ledger,        \* table ledger_entries
    sess,          \* per request in flight: position and locals of its handler
    response,      \* the answer on its way to the client, with its request
    clock,         \* last reading of datetime.utcnow(), in microseconds
    rolled,        \* number of the first ledger row inserted after midnight, 0 if none
    writer         \* session holding the database write lock, 0 if none

store == <<products, orders, order_items, movements, ledger>>
vars == <<products, orders, order_items, movements, ledger, sess, response, clock,
          rolled, writer>>

---------------------------------------------------------------------------
(* Bounds of the model *)

MaxLines == 2      \* longest item list of a checkout request
MaxTx == 2         \* transactions (orders + adjustments) committed or in flight

Sessions == {1, 2}

---------------------------------------------------------------------------
(* Money arithmetic *)

MONEY_STEP == 10

Abs(n) == IF n < 0 THEN -n ELSE n

\* A to_money that quantizes with ROUND_DOWN.
to_money_trunc(value) ==
    LET q == (Abs(value) \div MONEY_STEP) * MONEY_STEP
    IN  IF value < 0 THEN -q ELSE q

\* Decimal.quantize(MONEY_STEP, ROUND_HALF_UP): nearest multiple of the step,
\* a tie going away from zero.
to_money(value) ==
    LET q == ((Abs(value) + MONEY_STEP \div 2) \div MONEY_STEP) * MONEY_STEP
    IN  IF value < 0 THEN -q ELSE q

---------------------------------------------------------------------------
(* Generic helpers *)

Range(s) == {s[i] : i \in DOMAIN s}

RECURSIVE SumSeq(_)
SumSeq(s) == IF s = <<>> THEN 0 ELSE Head(s) + SumSeq(Tail(s))

NoResponse == [op |-> "none", status |-> 0, body |-> <<>>, req |-> <<>>]

\* A request slot with no request in it.  lines, order, cogs and order_id are the
\* locals of checkout; before_qty and tx_ref those of adjust_inventory.
IdleSession ==
    [pc |-> "idle", req |-> <<>>, lines |-> <<>>, order |-> <<>>, cogs |-> 0,
     order_id |-> 0, before_qty |-> 0, unit_cost |-> 0, tx_ref |-> <<>>]

\* The request slots are interchangeable: a new request takes the lowest free one.
FreeSlot(s) ==
    /\ sess[s].pc = "idle"
    /\ \A t \in Sessions : t < s => sess[t].pc # "idle"

\* Transactions committed so far or still in flight.
TxCount ==
    Len(orders)
    + Cardinality({i \in DOMAIN movements : movements[i].ref_type = "manual"})
    + Cardinality({s \in Sessions : sess[s].pc # "idle"})

\* datetime.utcnow() gives the reading of the previous call again or a later
\* one; clock counts the distinct readings so far, which stop at MaxTx.
ClockReadings ==
    IF clock = 0 THEN {1} ELSE {t \in {clock, clock + 1} : t <= MaxTx}

Reply(op, status, body, req) == [op |-> op, status |-> status, body |-> body, req |-> req]

---------------------------------------------------------------------------
(* Product registration *)

SKUS == {"A", "B"}

\* The payloads a client sends to POST /products.
ProductPayloads ==
    { [sku |-> "A", sell_price |-> 20, cost_price |-> 10, stock_qty |-> q, min_stock |-> 1]
        : q \in {-1, 2} }
    \cup
    { [sku |-> "B", sell_price |-> 10, cost_price |-> 0, stock_qty |-> 1, min_stock |-> 1] }

ProductCreate_valid(p) ==
    /\ p.sell_price > 0
    /\ p.cost_price >= 0
    /\ p.stock_qty >= 0
    /\ p.min_stock >= 0

\* Product(**payload.model_dump()): is_active takes the column default.
NewProduct(p) ==
    [sku |-> p.sku, sell_price |-> p.sell_price, cost_price |-> p.cost_price,
     stock_qty |-> p.stock_qty, min_stock |-> p.min_stock, is_active |-> TRUE]

\* A registration on a table without the unique index on sku.
create_product_no_unique_sku(s, p) ==
    /\ FreeSlot(s)
    /\ IF ~ProductCreate_valid(p)
       THEN /\ response' = Reply("product", 422, <<>>, p)
            /\ UNCHANGED products
       ELSE /\ writer = 0
            /\ products' = Append(products, NewProduct(p))
            /\ response' = Reply("product", 201, [id |-> Len(products) + 1], p)
    /\ UNCHANGED <<orders, order_items, movements, ledger, sess, clock, rolled, writer>>

\* db.add, db.commit: the INSERT waits for the write lock; the unique index on
\* sku raises IntegrityError, answered with a rollback and 409.
create_product(s, p) ==
    /\ FreeSlot(s)
    /\ IF ~ProductCreate_valid(p)
       THEN /\ response' = Reply("product", 422, <<>>, p)
            /\ UNCHANGED products
       ELSE IF \E i \in DOMAIN products : products[i].sku = p.sku
       THEN /\ writer = 0
            /\ response' = Reply("product", 409, <<>>, p)
            /\ UNCHANGED products
       ELSE /\ writer = 0
            /\ products' = Append(products, NewProduct(p))
            /\ response' = Reply("product", 201, [id |-> Len(products) + 1], p)
    /\ UNCHANGED <<orders, order_items, movements, ledger, sess, clock, rolled, writer>>

\* GET /products: the ids of the rows selected (order_by leaves the selection
\* as it is).
list_products(low_stock_only, include_inactive) ==
    { i \in DOMAIN products :
        /\ ~include_inactive => products[i].is_active
        /\ low_stock_only => products[i].stock_qty <= products[i].min_stock }

\* A low-stock listing of the products strictly below min_stock.
low_stock_products_below ==
    { i \in DOMAIN products :
        products[i].is_active /\ products[i].stock_qty < products[i].min_stock }

\* GET /inventory/low-stock: the ids of the rows selected.
low_stock_products ==
    { i \in DOMAIN products :
        products[i].is_active /\ products[i].stock_qty <= products[i].min_stock }

---------------------------------------------------------------------------
(* Bookkeeping *)

add_ledger_entry(tx_ref, account, direction, amount) ==
    IF amount <= 0
    THEN <<>>
    ELSE << [tx_ref |-> tx_ref, account |-> account, direction |-> direction,
             amount |-> to_money(amount)] >>

\* A record_double_entry that leaves out the credit row.
record_double_entry_debit_only(tx_ref, debit_account, credit_account, amount) ==
    IF amount <= 0
    THEN <<>>
    ELSE add_ledger_entry(tx_ref, debit_account, "debit", amount)

\* A record_double_entry that turns away negative amounts only.
record_double_entry_posts_zero(tx_ref, debit_account, credit_account, amount) ==
    IF amount < 0
    THEN <<>>
    ELSE << [tx_ref |-> tx_ref, account |-> debit_account, direction |-> "debit",
             amount |-> to_money(amount)],
            [tx_ref |-> tx_ref, account |-> credit_account, direction |-> "credit",
             amount |-> to_money(amount)] >>

\* The rows one posting adds to the session.
record_double_entry(tx_ref, debit_account, credit_account, amount) ==
    IF amount <= 0
    THEN <<>>
    ELSE add_ledger_entry(tx_ref, debit_account, "debit", amount)
         \o add_ledger_entry(tx_ref, credit_account, "credit", amount)

\* LedgerEntry.tx_date, default=datetime.utcnow: every row reads the clock of
\* its own when it is inserted, so midnight may fall before any of the rows.
utcnow_default(rows) ==
    rolled' \in IF rolled # 0 \/ rows = <<>>
                THEN {rolled}
                ELSE {0} \cup {Len(ledger) + i : i \in DOMAIN rows}

\* The day of the tx_date of ledger row i, counted from the day of the start.
tx_date(i) == IF rolled # 0 /\ i >= rolled THEN 1 ELSE 0

---------------------------------------------------------------------------
(* Checkout *)

\* discount, tax and payment method of the requests tried.
PricingInputs == { <<0, 0, "cash">>, <<25, 14, "credit">> }

\* The lines a request is made of.
CheckoutItems ==
    { [product_id |-> 1, quantity |-> 1], [product_id |-> 2, quantity |-> 1] }

ItemLists == UNION { [1..n -> CheckoutItems] : n \in 0..MaxLines }

CheckoutRequests ==
    { [items |-> it, discount |-> pr[1], tax |-> pr[2], payment_method |-> pr[3]]
        : it \in ItemLists, pr \in PricingInputs }

\* The spellings of the payment method tried on their own.
PaymentSpellings == {"credit", "Credit", " CREDIT ", "cash", " QRIS ", "  ", ""}

\* A validator that trims and keeps the case.
validate_payment_method_keeps_case(value) ==
    CASE value = " CREDIT " -> "CREDIT"
      [] value = " QRIS " -> "QRIS"
      [] value = "  " -> ""
      [] OTHER -> value

\* value.strip().lower() on the spellings tried; "" stands for a value the
\* validator raises on.
validate_payment_method(value) ==
    CASE value = "Credit" -> "credit"
      [] value = " CREDIT " -> "credit"
      [] value = " QRIS " -> "qris"
      [] value = "  " -> ""
      [] OTHER -> value

CheckoutRequest_valid(req) ==
    /\ Len(req.items) >= 1
    /\ \A i \in DOMAIN req.items :
          req.items[i].product_id > 0 /\ req.items[i].quantity > 0
    /\ req.discount >= 0
    /\ req.tax >= 0
    /\ req.payment_method # ""
    /\ validate_payment_method(req.payment_method) # ""

\* A coalescing that keeps every item as a line of its own.
add_requested_no_sum(rq, item) ==
    Append(rq, [product_id |-> item.product_id, qty |-> item.quantity])

\* requested_qty[item.product_id] = requested_qty.get(item.product_id, 0) + item.quantity
\* on a dict, which keeps its keys in the order of their first insertion.
add_requested(rq, item) ==
    IF \E i \in DOMAIN rq : rq[i].product_id = item.product_id
    THEN [i \in DOMAIN rq |->
            IF rq[i].product_id = item.product_id
            THEN [rq[i] EXCEPT !.qty = @ + item.quantity]
            ELSE rq[i]]
    ELSE Append(rq, [product_id |-> item.product_id, qty |-> item.quantity])

RECURSIVE requested_from(_, _)
requested_from(rq, items) ==
    IF items = <<>> THEN rq
    ELSE requested_from(add_requested(rq, Head(items)), Tail(items))

requested_qty(items) == requested_from(<<>>, items)

\* select(Product).where(Product.id.in_(product_ids), Product.is_active.is_(True))
product_map(rq) ==
    { p \in DOMAIN products :
        /\ \E i \in DOMAIN rq : rq[i].product_id = p
        /\ products[p].is_active }

\* A missing_ids that names every requested id once one of them is missing.
missing_ids_all_requested(rq) ==
    LET product_ids == [i \in DOMAIN rq |-> rq[i].product_id]
    IN  IF \A i \in DOMAIN rq : rq[i].product_id \in product_map(rq)
        THEN <<>> ELSE product_ids

missing_ids(rq) ==
    LET product_ids == [i \in DOMAIN rq |-> rq[i].product_id]
    IN  SelectSeq(product_ids, LAMBDA p : p \notin product_map(rq))

\* A stock check that wants a unit to be left over.
short_lines_keeps_one(rq) ==
    SelectSeq(rq, LAMBDA r : products[r.product_id].stock_qty <= r.qty)

\* A stock check that stops after the first line.
short_lines_first_only(rq) ==
    SelectSeq(SubSeq(rq, 1, 1), LAMBDA r : products[r.product_id].stock_qty < r.qty)

\* The lines whose product has less stock than requested, in request order.
short_lines(rq) ==
    SelectSeq(rq, LAMBDA r : products[r.product_id].stock_qty < r.qty)

\* One tuple of `lines` per requested product; stock_qty is the quantity the
\* session loaded for the product.
checkout_line(r) ==
    LET product == products[r.product_id]
        unit_price == to_money(product.sell_price)
        unit_cost == to_money(product.cost_price)
    IN  [product_id |-> r.product_id, qty |-> r.qty,
         unit_price |-> unit_price, unit_cost |-> unit_cost,
         line_total |-> to_money(unit_price * r.qty),
         line_cost |-> to_money(unit_cost * r.qty),
         stock_qty |-> product.stock_qty]

checkout_lines(rq) == [i \in DOMAIN rq |-> checkout_line(rq[i])]

\* A total that leaves the discount out.
checkout_total_undiscounted(subtotal, discount, tax) == to_money(subtotal + tax)

checkout_total(subtotal, discount, tax) == to_money(subtotal - discount + tax)

\* The Order header of a request, numbered from the clock reading `now`.
checkout_order(req, lines, now) ==
    LET subtotal == to_money(SumSeq([i \in DOMAIN lines |-> lines[i].line_total]))
        discount == to_money(req.discount)
        tax == to_money(req.tax)
    IN  [order_number |-> <<"ORD", now>>,
         payment_method |-> validate_payment_method(req.payment_method),
         subtotal |-> subtotal, discount |-> discount, tax |-> tax,
         total |-> checkout_total(subtotal, discount, tax)]

\* A cogs summed from the selling totals of the lines.
checkout_cogs_from_totals(lines) ==
    to_money(SumSeq([i \in DOMAIN lines |-> lines[i].line_total]))

checkout_cogs(lines) == to_money(SumSeq([i \in DOMAIN lines |-> lines[i].line_cost]))

\* The request as it was sent, kept for the answer.
payload_kept(req) ==
    [items |-> req.items, discount |-> req.discount, tax |-> req.tax,
     payment_method |-> req.payment_method]

\* Checks that look at the total before they look at the stock.
checkout_check_total_first(req) ==
    IF ~CheckoutRequest_valid(req) THEN <<422, <<>>>>
    ELSE LET rq == requested_qty(req.items) IN
         IF missing_ids(rq) # <<>> THEN <<404, missing_ids(rq)>>
         ELSE IF checkout_order(req, checkout_lines(rq), clock).total < 0
              THEN <<400, "total">>
         ELSE IF short_lines(rq) # <<>> THEN <<400, "stock">>
         ELSE <<201, <<>>>>

\* Lines 281-327: the answer of the checks, <<201, ..>> when all of them pass.
checkout_check(req) ==
    IF ~CheckoutRequest_valid(req) THEN <<422, <<>>>>
    ELSE LET rq == requested_qty(req.items) IN
         IF missing_ids(rq) # <<>> THEN <<404, missing_ids(rq)>>
         ELSE IF short_lines(rq) # <<>> THEN <<400, "stock">>
         ELSE IF checkout_order(req, checkout_lines(rq), clock).total < 0
              THEN <<400, "total">>
         ELSE <<201, <<>>>>

\* Lines 281-338: validation, the reads and checks, db.add(order).
checkout_begin(s, req) ==
    /\ FreeSlot(s)
    /\ UNCHANGED <<store, rolled, writer>>
    /\ IF checkout_check(req)[1] # 201
       THEN /\ response' = Reply("checkout", checkout_check(req)[1],
                                 checkout_check(req)[2], req)
            /\ UNCHANGED <<sess, clock>>
       ELSE LET lines == checkout_lines(requested_qty(req.items)) IN
            /\ TxCount < MaxTx
            /\ \E now \in ClockReadings :
                 /\ clock' = now
                 /\ sess' = [sess EXCEPT ![s] = [IdleSession EXCEPT
                       !.pc = "added", !.req = payload_kept(req), !.lines = lines,
                       !.order = checkout_order(req, lines, now),
                       !.cogs = checkout_cogs(lines)]]
            /\ response' = NoResponse

\* A stock debit of one unit per line, whatever its quantity.
sale_stock_one_each(lines) ==
    [p \in DOMAIN products |->
        IF \E i \in DOMAIN lines : lines[i].product_id = p
        THEN [products[p] EXCEPT !.stock_qty = @ - 1]
        ELSE products[p]]

\* A stock debit that takes line i off the product with id i.
sale_stock_by_position(lines) ==
    [p \in DOMAIN products |->
        IF p \in DOMAIN lines
        THEN [products[p] EXCEPT !.stock_qty = lines[p].stock_qty - lines[p].qty]
        ELSE products[p]]

\* Lines 342-369: the stock each product is set to, the item and the movement.
sale_stock(lines) ==
    [p \in DOMAIN products |->
        IF \E i \in DOMAIN lines : lines[i].product_id = p
        THEN LET l == lines[CHOOSE i \in DOMAIN lines : lines[i].product_id = p]
             IN  [products[p] EXCEPT !.stock_qty = l.stock_qty - l.qty]
        ELSE products[p]]

sale_item(order_id, l) ==
    [order_id |-> order_id, product_id |-> l.product_id, quantity |-> l.qty,
     unit_price |-> l.unit_price, cost_price |-> l.unit_cost,
     line_total |-> l.line_total, line_cost_total |-> l.line_cost]

\* A movement whose after_qty repeats before_qty.
sale_movement_after_is_before(order_id, l) ==
    [product_id |-> l.product_id, movement_type |-> "sale",
     quantity_change |-> -l.qty, before_qty |-> l.stock_qty,
     after_qty |-> l.stock_qty, ref_type |-> "order", ref_id |-> order_id]

sale_movement(order_id, l) ==
    [product_id |-> l.product_id, movement_type |-> "sale",
     quantity_change |-> -l.qty, before_qty |-> l.stock_qty,
     after_qty |-> l.stock_qty - l.qty, ref_type |-> "order", ref_id |-> order_id]

\* A receipt account that ignores the payment method.
receipt_account_always_cash(payment_method) == "Cash"

receipt_account(payment_method) ==
    IF payment_method = "credit" THEN "Accounts Receivable" ELSE "Cash"

\* Lines 381-384.
checkout_postings(order, cogs) ==
    record_double_entry(order.order_number, receipt_account(order.payment_method),
                        "Sales Revenue", order.total)
    \o record_double_entry(order.order_number, "COGS", "Inventory", cogs)

gross_profit(total, cogs) == to_money(total - cogs)

checkout_response(order_id, order, cogs, lines) ==
    [order_id |-> order_id, order_number |-> order.order_number,
     payment_method |-> order.payment_method, subtotal |-> order.subtotal,
     discount |-> order.discount, tax |-> order.tax, total |-> order.total,
     cogs |-> cogs, gross_profit |-> gross_profit(order.total, cogs),
     items |-> [i \in DOMAIN lines |->
                  [product_id |-> lines[i].product_id, quantity |-> lines[i].qty,
                   unit_price |-> lines[i].unit_price,
                   line_total |-> lines[i].line_total]]]

\* A close that publishes the stock changes of a flushed checkout.
get_db_close_keeps_stock(s) ==
    /\ sess' = [sess EXCEPT ![s] = IdleSession]
    /\ writer' = IF writer = s THEN 0 ELSE writer
    /\ products' = IF sess[s].pc = "flushed" THEN sale_stock(sess[s].lines) ELSE products
    /\ UNCHANGED <<orders, order_items, movements, ledger, rolled>>

\* get_db closes the session when the handler raised: what was added or changed
\* in the session and not committed is dropped, the write lock is released.
get_db_close(s) ==
    /\ sess' = [sess EXCEPT ![s] = IdleSession]
    /\ writer' = IF writer = s THEN 0 ELSE writer
    /\ UNCHANGED <<store, rolled>>

\* Line 339, db.flush(): INSERT of the order under the write lock; the unique
\* index on order_number raises IntegrityError, which no handler catches.
checkout_flush(s) ==
    /\ sess[s].pc = "added"
    /\ writer = 0
    /\ UNCHANGED clock
    /\ IF \E i \in DOMAIN orders : orders[i].order_number = sess[s].order.order_number
       THEN /\ response' = Reply("checkout", 500, "IntegrityError", sess[s].req)
            /\ get_db_close(s)
       ELSE /\ writer' = s
            /\ sess' = [sess EXCEPT ![s].pc = "flushed", ![s].order_id = Len(orders) + 1]
            /\ response' = NoResponse
            /\ UNCHANGED <<store, rolled>>

\* Lines 341-402: the loop over lines, the postings, db.commit() and the answer.
checkout_commit(s) ==
    LET c == sess[s] IN
    /\ c.pc = "flushed"
    /\ writer = s
    /\ orders' = Append(orders, c.order)
    /\ products' = sale_stock(c.lines)
    /\ order_items' = order_items \o [i \in DOMAIN c.lines |-> sale_item(c.order_id, c.lines[i])]
    /\ movements' = movements \o [i \in DOMAIN c.lines |-> sale_movement(c.order_id, c.lines[i])]
    /\ ledger' = ledger \o checkout_postings(c.order, c.cogs)
    /\ utcnow_default(checkout_postings(c.order, c.cogs))
    /\ response' = Reply("checkout", 201,
                         checkout_response(c.order_id, c.order, c.cogs, c.lines), c.req)
    /\ sess' = [sess EXCEPT ![s] = IdleSession]
    /\ writer' = 0
    /\ UNCHANGED clock

\* db.flush() or db.commit() raising an error of the storage layer (the
\* database is locked beyond the timeout, the connection is lost, ...); the
\* answer's body tells where the handler was.
storage_failure(s) ==
    /\ sess[s].pc \in {"added", "flushed", "pending"}
    /\ response' = Reply(IF sess[s].pc = "pending" THEN "adjust" ELSE "checkout",
                         500, sess[s].pc, sess[s].req)
    /\ get_db_close(s)
    /\ UNCHANGED clock

---------------------------------------------------------------------------
(* Inventory adjustment *)

\* quantity_change and counterparty_account of the requests tried ("" stands
\* for an absent or empty account).
AdjustInputs ==
    { <<0, "">>, <<1, "">>, <<-1, " Accounts Payable ">>, <<-2, "  ">> }

AdjustRequests ==
    { [product_id |-> p, quantity_change |-> a[1], counterparty_account |-> a[2]]
        : p \in 1..Cardinality(SKUS), a \in AdjustInputs }

\* An InventoryAdjustmentRequest without its quantity_change validator.
InventoryAdjustmentRequest_valid_any_change(req) == req.product_id > 0

InventoryAdjustmentRequest_valid(req) ==
    /\ req.product_id > 0
    /\ req.quantity_change # 0

\* str.strip() on the account names tried.
strip(text) ==
    CASE text = "  " -> ""
      [] text = " Accounts Payable " -> "Accounts Payable"
      [] OTHER -> text

\* A counterparty that takes the caller's account as sent.
counterparty_untrimmed(req) ==
    IF req.counterparty_account # "" /\ strip(req.counterparty_account) # ""
    THEN req.counterparty_account
    ELSE IF req.quantity_change > 0 THEN "Cash" ELSE "Inventory Shrinkage Expense"

counterparty(req) ==
    IF req.counterparty_account # "" /\ strip(req.counterparty_account) # ""
    THEN strip(req.counterparty_account)
    ELSE IF req.quantity_change > 0 THEN "Cash" ELSE "Inventory Shrinkage Expense"

\* A movement kind that does not look at the sign of the change.
movement_type_always_restock(quantity_change) == "restock"

movement_type(quantity_change) ==
    IF quantity_change > 0 THEN "restock" ELSE "adjustment"

adjust_movement(req, before_qty) ==
    [product_id |-> req.product_id,
     movement_type |-> movement_type(req.quantity_change),
     quantity_change |-> req.quantity_change, before_qty |-> before_qty,
     after_qty |-> before_qty + req.quantity_change,
     ref_type |-> "manual", ref_id |-> 0]

\* Lines 251-264.
adjust_postings(req, tx_ref, cost_price) ==
    LET unit_cost == to_money(cost_price)
        value == to_money(unit_cost * Abs(req.quantity_change))
    IN  IF req.quantity_change > 0
        THEN record_double_entry(tx_ref, "Inventory", counterparty(req), value)
        ELSE record_double_entry(tx_ref, counterparty(req), "Inventory", value)

\* An after_qty that adds the size of the change.
adjust_after_qty_unsigned(before_qty, quantity_change) == before_qty + Abs(quantity_change)

\* Line 231.
adjust_after_qty(before_qty, quantity_change) == before_qty + quantity_change

\* An answer of 400 for a product that is not found.
adjust_check_missing_is_400(req) ==
    IF ~InventoryAdjustmentRequest_valid(req) THEN <<422, <<>>>>
    ELSE IF req.product_id \notin DOMAIN products
            \/ ~products[req.product_id].is_active
    THEN <<400, "stock">>
    ELSE IF adjust_after_qty(products[req.product_id].stock_qty, req.quantity_change) < 0
    THEN <<400, "stock">>
    ELSE <<200, <<>>>>

\* Lines 226-236: the answer of the checks, <<200, ..>> when all of them pass.
adjust_check(req) ==
    IF ~InventoryAdjustmentRequest_valid(req) THEN <<422, <<>>>>
    ELSE IF req.product_id \notin DOMAIN products
            \/ ~products[req.product_id].is_active
    THEN <<404, <<>>>>
    ELSE IF adjust_after_qty(products[req.product_id].stock_qty, req.quantity_change) < 0
    THEN <<400, "stock">>
    ELSE <<200, <<>>>>

\* Lines 226-264: the read, the checks and the changes made in the session.
adjust_begin(s, req) ==
    /\ FreeSlot(s)
    /\ UNCHANGED <<store, rolled, writer>>
    /\ IF adjust_check(req)[1] # 200
       THEN /\ response' = Reply("adjust", adjust_check(req)[1], adjust_check(req)[2], req)
            /\ UNCHANGED <<sess, clock>>
       ELSE LET product == products[req.product_id]
                before_qty == product.stock_qty
            IN  /\ TxCount < MaxTx
                /\ \E now \in ClockReadings :
                     /\ clock' = now
                     /\ sess' = [sess EXCEPT ![s] = [IdleSession EXCEPT
                           !.pc = "pending", !.req = req,
                           !.before_qty = before_qty,
                           !.unit_cost = product.cost_price,
                           !.tx_ref = <<"INV", now>>]]
                /\ response' = NoResponse

\* A commit that keeps one movement per product, overwriting the previous one.
adjust_commit_overwrites_movement(s) ==
    LET c == sess[s]
        same == {i \in DOMAIN movements : movements[i].product_id = c.req.product_id}
    IN
    /\ c.pc = "pending"
    /\ writer = 0
    /\ products' = [products EXCEPT ![c.req.product_id].stock_qty =
                                        c.before_qty + c.req.quantity_change]
    /\ movements' = IF same = {}
                    THEN Append(movements, adjust_movement(c.req, c.before_qty))
                    ELSE [movements EXCEPT ![CHOOSE i \in same : TRUE] =
                                               adjust_movement(c.req, c.before_qty)]
    /\ ledger' = ledger \o adjust_postings(c.req, c.tx_ref, c.unit_cost)
    /\ utcnow_default(adjust_postings(c.req, c.tx_ref, c.unit_cost))
    /\ response' = Reply("adjust", 200, adjust_movement(c.req, c.before_qty), c.req)
    /\ sess' = [sess EXCEPT ![s] = IdleSession]
    /\ UNCHANGED <<orders, order_items, clock, writer>>

\* Lines 266-268: db.commit() writes the product, the movement and the ledger
\* rows under the write lock and publishes them.
adjust_commit(s) ==
    LET c == sess[s] IN
    /\ c.pc = "pending"
    /\ writer = 0
    /\ products' = [products EXCEPT ![c.req.product_id].stock_qty =
                                        c.before_qty + c.req.quantity_change]
    /\ movements' = Append(movements, adjust_movement(c.req, c.before_qty))
    /\ ledger' = ledger \o adjust_postings(c.req, c.tx_ref, c.unit_cost)
    /\ utcnow_default(adjust_postings(c.req, c.tx_ref, c.unit_cost))
    /\ response' = Reply("adjust", 200, adjust_movement(c.req, c.before_qty), c.req)
    /\ sess' = [sess EXCEPT ![s] = IdleSession]
    /\ UNCHANGED <<orders, order_items, clock, writer>>

---------------------------------------------------------------------------
(* The handlers run from request to answer with no other request in between *)

\* What a handler answers and what it leaves in the tables.
Outcome(status, body, p, o, oi, mv, l) ==
    [status |-> status, body |-> body, products |-> p, orders |-> o,
     order_items |-> oi, movements |-> mv, ledger |-> l]

\* An answer that leaves the tables as they are.
Refused(status, body) ==
    Outcome(status, body, products, orders, order_items, movements, ledger)

\* checkout of app/main.py, its order numbered from the clock reading `now`.
main_checkout(req, now) ==
    IF checkout_check(req)[1] # 201
    THEN Refused(checkout_check(req)[1], checkout_check(req)[2])
    ELSE LET lines == checkout_lines(requested_qty(req.items))
             order == checkout_order(req, lines, now)
             cogs == checkout_cogs(lines)
             order_id == Len(orders) + 1
         IN  IF \E i \in DOMAIN orders : orders[i].order_number = order.order_number
             THEN Refused(500, "IntegrityError")
             ELSE Outcome(201, checkout_response(order_id, order, cogs, lines),
                          sale_stock(lines),
                          Append(orders, order),
                          order_items \o [i \in DOMAIN lines |-> sale_item(order_id, lines[i])],
                          movements \o [i \in DOMAIN lines |-> sale_movement(order_id, lines[i])],
                          ledger \o checkout_postings(order, cogs))

\* adjust_inventory of app/main.py, its tx_ref taken from the clock reading `now`.
main_adjust_inventory(req, now) ==
    IF adjust_check(req)[1] # 200
    THEN Refused(adjust_check(req)[1], adjust_check(req)[2])
    ELSE LET product == products[req.product_id]
             movement == adjust_movement(req, product.stock_qty)
         IN  Outcome(200, movement,
                     [products EXCEPT ![req.product_id].stock_qty =
                         adjust_after_qty(product.stock_qty, req.quantity_change)],
                     orders, order_items,
                     Append(movements, movement),
                     ledger \o adjust_postings(req, <<"INV", now>>, product.cost_price))

---------------------------------------------------------------------------
(* The handlers of app/routers, with app/utils.py and app/services *)

\* utils.to_money: quantize(MONEY_STEP, ROUND_HALF_UP).
utils_to_money(value) ==
    IF value >= 0
    THEN ((2 * value + MONEY_STEP) \div (2 * MONEY_STEP)) * MONEY_STEP
    ELSE -(((2 * (-value) + MONEY_STEP) \div (2 * MONEY_STEP)) * MONEY_STEP)

\* services.bookkeeping.add_ledger_entry
bookkeeping_add_ledger_entry(tx_ref, account, direction, amount) ==
    IF amount <= 0
    THEN <<>>
    ELSE << [tx_ref |-> tx_ref, account |-> account, direction |-> direction,
             amount |-> utils_to_money(amount)] >>

\* services.bookkeeping.record_double_entry
bookkeeping_record_double_entry(tx_ref, debit_account, credit_account, amount) ==
    IF amount <= 0
    THEN <<>>
    ELSE bookkeeping_add_ledger_entry(tx_ref, debit_account, "debit", amount)
         \o bookkeeping_add_ledger_entry(tx_ref, credit_account, "credit", amount)

\* routers/orders.py lines 29-31: requested_qty, one entry per product id in
\* the order of first mention.
RECURSIVE orders_requested_qty(_, _)
orders_requested_qty(rq, items) ==
    IF items = <<>> THEN rq
    ELSE LET item == Head(items)
             hit == {i \in DOMAIN rq : rq[i].product_id = item.product_id}
         IN  orders_requested_qty(
                IF hit = {}
                THEN Append(rq, [product_id |-> item.product_id, qty |-> item.quantity])
                ELSE [i \in DOMAIN rq |->
                        IF i \in hit THEN [rq[i] EXCEPT !.qty = @ + item.quantity]
                        ELSE rq[i]],
                Tail(items))

\* checkout of routers/orders.py, lines 27-148.
orders_checkout(req, now) ==
    LET rq == orders_requested_qty(<<>>, req.items)
        found == {p \in DOMAIN products :
                    products[p].is_active /\ \E i \in DOMAIN rq : rq[i].product_id = p}
        missing == SelectSeq([i \in DOMAIN rq |-> rq[i].product_id],
                             LAMBDA pid : pid \notin found)
    IN
    IF ~CheckoutRequest_valid(req) THEN Refused(422, <<>>)
    ELSE IF missing # <<>> THEN Refused(404, missing)
    ELSE IF \E i \in DOMAIN rq : products[rq[i].product_id].stock_qty < rq[i].qty
    THEN Refused(400, "stock")
    ELSE
    LET lines == [i \in DOMAIN rq |->
                    LET product == products[rq[i].product_id]
                        unit_price == utils_to_money(product.sell_price)
                        unit_cost == utils_to_money(product.cost_price)
                    IN  [product_id |-> rq[i].product_id, qty |-> rq[i].qty,
                         before_qty |-> product.stock_qty,
                         unit_price |-> unit_price, unit_cost |-> unit_cost,
                         line_total |-> utils_to_money(unit_price * rq[i].qty),
                         line_cost |-> utils_to_money(unit_cost * rq[i].qty)]]
        subtotal == utils_to_money(SumSeq([i \in DOMAIN lines |-> lines[i].line_total]))
        discount == utils_to_money(req.discount)
        tax == utils_to_money(req.tax)
        total == utils_to_money(subtotal - discount + tax)
        cogs == utils_to_money(SumSeq([i \in DOMAIN lines |-> lines[i].line_cost]))
        order_number == <<"ORD", now>>
        order_id == Len(orders) + 1
        payment_method == validate_payment_method(req.payment_method)
        receipt == IF payment_method = "credit" THEN "Accounts Receivable" ELSE "Cash"
    IN
    IF total < 0 THEN Refused(400, "total")
    ELSE IF \E i \in DOMAIN orders : orders[i].order_number = order_number
    THEN Refused(500, "IntegrityError")
    ELSE Outcome(201,
            [order_id |-> order_id, order_number |-> order_number,
             payment_method |-> payment_method, subtotal |-> subtotal,
             discount |-> discount, tax |-> tax, total |-> total, cogs |-> cogs,
             gross_profit |-> utils_to_money(total - cogs),
             items |-> [i \in DOMAIN lines |->
                          [product_id |-> lines[i].product_id, quantity |-> lines[i].qty,
                           unit_price |-> lines[i].unit_price,
                           line_total |-> lines[i].line_total]]],
            [p \in DOMAIN products |->
                IF \E i \in DOMAIN lines : lines[i].product_id = p
                THEN LET l == lines[CHOOSE i \in DOMAIN lines : lines[i].product_id = p]
                     IN  [products[p] EXCEPT !.stock_qty = l.before_qty - l.qty]
                ELSE products[p]],
            Append(orders, [order_number |-> order_number,
                            payment_method |-> payment_method,
                            subtotal |-> subtotal, discount |-> discount,
                            tax |-> tax, total |-> total]),
            order_items \o [i \in DOMAIN lines |->
                [order_id |-> order_id, product_id |-> lines[i].product_id,
                 quantity |-> lines[i].qty, unit_price |-> lines[i].unit_price,
                 cost_price |-> lines[i].unit_cost, line_total |-> lines[i].line_total,
                 line_cost_total |-> lines[i].line_cost]],
            movements \o [i \in DOMAIN lines |->
                [product_id |-> lines[i].product_id, movement_type |-> "sale",
                 quantity_change |-> -lines[i].qty, before_qty |-> lines[i].before_qty,
                 after_qty |-> lines[i].before_qty - lines[i].qty,
                 ref_type |-> "order", ref_id |-> order_id]],
            ledger
              \o bookkeeping_record_double_entry(order_number, receipt, "Sales Revenue", total)
              \o bookkeeping_record_double_entry(order_number, "COGS", "Inventory", cogs))

\* adjust_inventory of routers/inventory.py, lines 41-86.
inventory_adjust_inventory(req, now) ==
    IF ~InventoryAdjustmentRequest_valid(req) THEN Refused(422, <<>>)
    ELSE IF req.product_id \notin DOMAIN products \/ ~products[req.product_id].is_active
    THEN Refused(404, <<>>)
    ELSE
    LET product == products[req.product_id]
        before_qty == product.stock_qty
        after_qty == before_qty + req.quantity_change
        movement == [product_id |-> req.product_id,
                     movement_type |-> IF req.quantity_change > 0
                                       THEN "restock" ELSE "adjustment",
                     quantity_change |-> req.quantity_change,
                     before_qty |-> before_qty, after_qty |-> after_qty,
                     ref_type |-> "manual", ref_id |-> 0]
        unit_cost == utils_to_money(product.cost_price)
        value == utils_to_money(unit_cost * Abs(req.quantity_change))
        account == IF req.counterparty_account # "" /\ strip(req.counterparty_account) # ""
                   THEN strip(req.counterparty_account)
                   ELSE IF req.quantity_change > 0
                        THEN "Cash" ELSE "Inventory Shrinkage Expense"
    IN
    IF after_qty < 0 THEN Refused(400, "stock")
    ELSE Outcome(200, movement,
                 [products EXCEPT ![req.product_id].stock_qty = after_qty],
                 orders, order_items,
                 Append(movements, movement),
                 ledger \o (IF req.quantity_change > 0
                            THEN bookkeeping_record_double_entry(
                                    <<"INV", now>>, "Inventory", account, value)
                            ELSE bookkeeping_record_double_entry(
                                    <<"INV", now>>, account, "Inventory", value)))

---------------------------------------------------------------------------
Init ==
    /\ products = <<>>
    /\ orders = <<>>
    /\ order_items = <<>>
    /\ movements = <<>>
    /\ ledger = <<>>
    /\ sess = [s \in Sessions |-> IdleSession]
    /\ response = NoResponse
    /\ clock = 0
    /\ rolled = 0
    /\ writer = 0

\* No request is being handled.
Quiet == \A t \in Sessions : sess[t].pc = "idle"

\* The client takes the answer.
deliver ==
    /\ response # NoResponse
    /\ response' = NoResponse
    /\ UNCHANGED <<store, sess, clock, rolled, writer>>

\* The answer of the previous step has been taken.
Ready == response = NoResponse

\* Requests handled one after the other, all of them on one day.
Next ==
    \/ deliver
    \/ \E s \in Sessions, p \in ProductPayloads : Ready /\ Quiet /\ create_product(s, p)
    \/ \E s \in Sessions, req \in CheckoutRequests : Ready /\ Quiet /\ checkout_begin(s, req)
    \/ \E s \in Sessions, req \in AdjustRequests : Ready /\ Quiet /\ adjust_begin(s, req)
    \/ \E s \in Sessions : Ready /\ checkout_flush(s)
    \/ \E s \in Sessions : Ready /\ checkout_commit(s) /\ UNCHANGED rolled
    \/ \E s \in Sessions : Ready /\ adjust_commit(s) /\ UNCHANGED rolled
    \/ \E s \in Sessions : Ready /\ storage_failure(s)

\* The requests of the runs in which requests overlap.
OverlapCheckouts ==
    { req \in CheckoutRequests : Len(req.items) <= 1 /\ req.discount = 0 }

OverlapAdjusts == { req \in AdjustRequests : req.counterparty_account = "" }

\* Requests handled by concurrent workers, each in its own session, all of
\* them on one day.
OverlapNext ==
    \/ deliver
    \/ \E s \in Sessions, p \in ProductPayloads : Ready /\ create_product(s, p)
    \/ \E s \in Sessions, req \in OverlapCheckouts : Ready /\ checkout_begin(s, req)
    \/ \E s \in Sessions, req \in OverlapAdjusts : Ready /\ adjust_begin(s, req)
    \/ \E s \in Sessions : Ready /\ checkout_flush(s)
    \/ \E s \in Sessions : Ready /\ checkout_commit(s) /\ UNCHANGED rolled
    \/ \E s \in Sessions : Ready /\ adjust_commit(s) /\ UNCHANGED rolled
    \/ \E s \in Sessions : Ready /\ storage_failure(s)

\* Requests handled one after the other around midnight.
MidnightNext ==
    \/ deliver
    \/ \E s \in Sessions, p \in ProductPayloads : Ready /\ Quiet /\ create_product(s, p)
    \/ \E s \in Sessions, req \in OverlapCheckouts : Ready /\ Quiet /\ checkout_begin(s, req)
    \/ \E s \in Sessions, req \in OverlapAdjusts : Ready /\ Quiet /\ adjust_begin(s, req)
    \/ \E s \in Sessions : Ready /\ checkout_flush(s)
    \/ \E s \in Sessions : Ready /\ checkout_commit(s)
    \/ \E s \in Sessions : Ready /\ adjust_commit(s)
    \/ \E s \in Sessions : Ready /\ storage_failure(s)

\* Single undiscounted lines paid by every spelling of the payment method.
PaymentCheckouts ==
    { [items |-> it, discount |-> 0, tax |-> 0, payment_method |-> pm]
        : it \in { l \in ItemLists : Len(l) = 1 }, pm \in PaymentSpellings }

\* Requests handled one after the other, on one day, the checkouts paid by any
\* of the spellings.
PaymentNext ==
    \/ deliver
    \/ \E s \in Sessions, p \in ProductPayloads : Ready /\ Quiet /\ create_product(s, p)
    \/ \E s \in Sessions, req \in PaymentCheckouts : Ready /\ Quiet /\ checkout_begin(s, req)
    \/ \E s \in Sessions, req \in OverlapAdjusts : Ready /\ Quiet /\ adjust_begin(s, req)
    \/ \E s \in Sessions : Ready /\ checkout_flush(s)
    \/ \E s \in Sessions : Ready /\ checkout_commit(s) /\ UNCHANGED rolled
    \/ \E s \in Sessions : Ready /\ adjust_commit(s) /\ UNCHANGED rolled
    \/ \E s \in Sessions : Ready /\ storage_failure(s)

Spec == Init /\ [][Next]_vars

OverlapSpec == Init /\ [][OverlapNext]_vars

MidnightSpec == Init /\ [][MidnightNext]_vars

PaymentSpec == Init /\ [][PaymentNext]_vars

---------------------------------------------------------------------------
(* Properties *)

Products == DOMAIN products

Movements == DOMAIN movements

\* A checkout of session s is committed by this step.
CheckoutCommitted(s) ==
    sess[s].pc = "flushed" /\ Len(orders') = Len(orders) + 1

\* The store has seen no inventory adjustment.
OnlySales == \A m \in Movements : movements[m].movement_type = "sale"

\* C1: after any sequence of registrations, checkouts and adjustments handled
\* one after the other, accepted or rejected, every product has stock_qty >= 0.
C1_StockNeverNegative == \A p \in Products : products[p].stock_qty >= 0

\* A sale has emptied a product and a further request for it was turned down.
C1_Witness ==
    /\ \E p \in Products : products[p].stock_qty = 0
    /\ orders # <<>>
    /\ response.op = "checkout" /\ response.status = 400 /\ response.body = "stock"

\* C2: of two overlapping checkouts for stock that suffices for one of them, only
\* one succeeds: a checkout commits a sale only of units the store still holds
\* at that moment.
C2_LastUnitSoldOnce ==
    [][\A s \in Sessions :
          (CheckoutCommitted(s) /\ OnlySales) =>
             \A i \in DOMAIN sess[s].lines :
                sess[s].lines[i].qty <= products[sess[s].lines[i].product_id].stock_qty]_vars

TxRefs == { ledger[i].tx_ref : i \in DOMAIN ledger }

SideTotal(tx_ref, direction) ==
    SumSeq([i \in DOMAIN ledger |->
              IF ledger[i].tx_ref = tx_ref /\ ledger[i].direction = direction
              THEN ledger[i].amount ELSE 0])

\* C3: for every tx_ref in the ledger, the debit amounts and the credit amounts
\* have the same sum.
C3_LedgerBalanced ==
    \A r \in TxRefs : SideTotal(r, "debit") = SideTotal(r, "credit")

\* The ledger holds the rows of an order and those of an adjustment.
C3_Witness ==
    /\ \E r \in TxRefs : r[1] = "ORD"
    /\ \E r \in TxRefs : r[1] = "INV"

\* The stock a product was registered with (the catalog registers each SKU with
\* one valid payload).
RegisteredStock(p) ==
    (CHOOSE pl \in ProductPayloads : pl.sku = products[p].sku /\ pl.stock_qty >= 0).stock_qty

MovedQty(p) ==
    SumSeq([i \in DOMAIN movements |->
              IF movements[i].product_id = p THEN movements[i].quantity_change ELSE 0])

\* Every order in the store has its items, a sale movement for each item and,
\* for a positive total, its revenue rows.
OrderComplete(o) ==
    /\ \E i \in DOMAIN order_items : order_items[i].order_id = o
    /\ \A i \in DOMAIN order_items :
          order_items[i].order_id = o =>
             \E m \in Movements :
                /\ movements[m].ref_type = "order" /\ movements[m].ref_id = o
                /\ movements[m].product_id = order_items[i].product_id
                /\ movements[m].quantity_change = -order_items[i].quantity
    /\ orders[o].total > 0 =>
          \E l \in DOMAIN ledger :
             ledger[l].tx_ref = orders[o].order_number /\ ledger[l].account = "Sales Revenue"

\* The five tables are those of whole transactions only.
StoreWhole ==
    /\ \A o \in DOMAIN orders : OrderComplete(o)
    /\ \A i \in DOMAIN order_items : order_items[i].order_id \in DOMAIN orders
    /\ \A m \in Movements :
          movements[m].ref_type = "order" => movements[m].ref_id \in DOMAIN orders
    /\ \A l \in DOMAIN ledger :
          ledger[l].tx_ref[1] = "ORD" =>
             \E o \in DOMAIN orders : orders[o].order_number = ledger[l].tx_ref
    /\ \A p \in Products : products[p].stock_qty = RegisteredStock(p) + MovedQty(p)
    /\ Cardinality({l \in DOMAIN ledger :
                      ledger[l].tx_ref[1] = "INV" /\ ledger[l].direction = "debit"})
       = Cardinality({m \in Movements :
                      /\ movements[m].ref_type = "manual"
                      /\ products[movements[m].product_id].cost_price > 0})

\* C4: a checkout or an adjustment that fails at a step after its first write
\* (the flush of the order, the commit) leaves the five tables as they were,
\* and the tables never hold a part of a transaction.
C4_AllOrNothing ==
    [][/\ response'.status = 500 => UNCHANGED store
       /\ StoreWhole']_vars

\* The commit of a checkout has failed, with an earlier order in the store.
C4_Witness ==
    /\ response.op = "checkout" /\ response.status = 500 /\ response.body = "flushed"
    /\ orders # <<>>

\* The quantity a request asks of product p, all its lines together.
QtyOf(items, p) ==
    SumSeq([i \in DOMAIN items |->
              IF items[i].product_id = p THEN items[i].quantity ELSE 0])

\* Some product of the store is asked for more than its stock.
Oversized(items) ==
    \E p \in Products : QtyOf(items, p) > products[p].stock_qty

AllKnown(items) ==
    \A i \in DOMAIN items :
       items[i].product_id \in Products /\ products[items[i].product_id].is_active

\* This step turns a checkout request down.
CheckoutRejected ==
    /\ response = NoResponse
    /\ response'.op = "checkout"
    /\ response'.status \in {400, 404, 422}

\* This step lets the checkout of session s past the checks.
CheckoutAdmitted(s) == sess[s].pc = "idle" /\ sess'[s].pc = "added"

NoLineAdmittedShort ==
    \A s \in Sessions :
       CheckoutAdmitted(s) =>
          \A i \in DOMAIN sess'[s].lines :
             sess'[s].lines[i].qty <= products[sess'[s].lines[i].product_id].stock_qty

\* C5 as stated: a checkout one of whose coalesced lines asks for more than the
\* stock of its product is answered 400 and changes nothing in the store.
C5_OversizedIs400 ==
    [][/\ (CheckoutRejected /\ Oversized(response'.req.items)) =>
             (response'.status = 400 /\ UNCHANGED store)
       /\ NoLineAdmittedShort]_vars

\* C5, amended: when the request is valid and all its products exist and are
\* active, an oversized line is answered 400 "stock"; whatever the answer (400,
\* 404 or 422), an oversized request changes nothing in the store and is never
\* let past the checks.
C5_OversizedRejected ==
    [][/\ (CheckoutRejected /\ Oversized(response'.req.items)) =>
             /\ UNCHANGED store
             /\ response'.status \in {400, 404}
             /\ AllKnown(response'.req.items) =>
                   (response'.status = 400 /\ response'.body = "stock")
       /\ NoLineAdmittedShort]_vars

\* A two-line request, one line within stock and one beyond it, was answered 400
\* after an order had been committed.
C5_Witness ==
    /\ response.op = "checkout" /\ response.status = 400 /\ response.body = "stock"
    /\ Len(response.req.items) = 2
    /\ response.req.items[1].product_id # response.req.items[2].product_id
    /\ AllKnown(response.req.items)
    /\ \E i \in {1, 2} : response.req.items[i].quantity
                           <= products[response.req.items[i].product_id].stock_qty
    /\ orders # <<>>

\* C6: every movement row written has after_qty = before_qty + quantity_change,
\* and its after_qty is the stock_qty of its product in the store at the moment
\* the row is committed.
C6_MovementSnapshot ==
    [][\A m \in DOMAIN movements' :
          /\ movements'[m].after_qty
                = movements'[m].before_qty + movements'[m].quantity_change
          /\ m > Len(movements) =>
                products'[movements'[m].product_id].stock_qty = movements'[m].after_qty]_vars

\* A sale was committed on a stock quantity that an overlapping request had
\* changed since the checkout read it.
C6_Witness ==
    \E m \in Movements :
       /\ movements[m].movement_type = "sale"
       /\ \E n \in 1..(m - 1) :
             /\ movements[n].product_id = movements[m].product_id
             /\ movements[n].before_qty = movements[m].before_qty

\* One line per product of the request, in the order the products are first
\* asked for, carrying the summed quantity.
SummedLines(items) ==
    LET firsts == SelectSeq([i \in DOMAIN items |-> i],
                            LAMBDA i : \A j \in 1..(i - 1) :
                                          items[j].product_id # items[i].product_id)
    IN  [k \in DOMAIN firsts |->
           [product_id |-> items[firsts[k]].product_id,
            quantity |-> QtyOf(items, items[firsts[k]].product_id)]]

\* What the handler answers and, when it accepts, what it writes.
Plan(req) ==
    IF checkout_check(req)[1] # 201
    THEN [check |-> checkout_check(req)]
    ELSE LET lines == checkout_lines(requested_qty(req.items))
             order == checkout_order(req, lines, clock)
             cogs == checkout_cogs(lines)
         IN  [check |-> checkout_check(req),
              answer |-> checkout_response(Len(orders) + 1, order, cogs, lines),
              stock |-> sale_stock(lines),
              items |-> [i \in DOMAIN lines |-> sale_item(Len(orders) + 1, lines[i])],
              moves |-> [i \in DOMAIN lines |-> sale_movement(Len(orders) + 1, lines[i])],
              rows |-> checkout_postings(order, cogs)]

\* C7: a checkout whose lines repeat a product id is answered, and changes the
\* store, exactly as the checkout with one line per product carrying the summed
\* quantity.
C7_DuplicatesAreSummed ==
    (Quiet /\ response = NoResponse) =>
       \A req \in CheckoutRequests :
          Plan(req) = Plan([req EXCEPT !.items = SummedLines(req.items)])

\* A request splitting over two lines a quantity its product cannot supply, each
\* line being within stock, was answered 400.
C7_Witness ==
    /\ response.op = "checkout" /\ response.status = 400 /\ response.body = "stock"
    /\ Len(response.req.items) = 2
    /\ response.req.items[1].product_id = response.req.items[2].product_id
    /\ \A i \in {1, 2} : response.req.items[i].quantity
                           <= products[response.req.items[1].product_id].stock_qty

\* Rounding to the money step, a tie going away from zero.
Normalize(v) ==
    LET lo == (v \div MONEY_STEP) * MONEY_STEP
        r == v - lo
    IN  IF v >= 0
        THEN (IF 2 * r >= MONEY_STEP THEN lo + MONEY_STEP ELSE lo)
        ELSE (IF 2 * r > MONEY_STEP THEN lo + MONEY_STEP ELSE lo)

ItemsOf(o) == SelectSeq(order_items, LAMBDA it : it.order_id = o)

\* The cost of the goods of order o, from its items.
CogsOf(o) ==
    Normalize(SumSeq([i \in DOMAIN ItemsOf(o) |-> ItemsOf(o)[i].line_cost_total]))

HasRow(tx_ref, account, direction, amount) ==
    \E l \in DOMAIN ledger :
       ledger[l] = [tx_ref |-> tx_ref, account |-> account,
                    direction |-> direction, amount |-> amount]

HasPair(tx_ref, debit_account, credit_account, amount) ==
    /\ HasRow(tx_ref, debit_account, "debit", amount)
    /\ HasRow(tx_ref, credit_account, "credit", amount)

RowsOf(tx_ref, account) ==
    { l \in DOMAIN ledger : ledger[l].tx_ref = tx_ref /\ ledger[l].account = account }

Receipt(o) ==
    IF orders[o].payment_method = "credit" THEN "Accounts Receivable" ELSE "Cash"

\* C8 as stated: every accepted checkout posts, under its order number, a debit
\* to Accounts Receivable (credit) or Cash (otherwise) and a credit to Sales
\* Revenue, both of amount total, and a debit to COGS and a credit to Inventory,
\* both of amount cogs.
C8_EveryCheckoutPostsBoth ==
    \A o \in DOMAIN orders :
       /\ HasPair(orders[o].order_number, Receipt(o), "Sales Revenue", orders[o].total)
       /\ HasPair(orders[o].order_number, "COGS", "Inventory", CogsOf(o))

\* C8, amended: the receipt pair is posted when total > 0 and the COGS pair when
\* cogs > 0; for an amount of zero the pair is left out.
C8_PositiveAmountsPosted ==
    \A o \in DOMAIN orders :
       /\ IF orders[o].total > 0
          THEN HasPair(orders[o].order_number, Receipt(o), "Sales Revenue", orders[o].total)
          ELSE RowsOf(orders[o].order_number, "Sales Revenue") = {}
       /\ IF CogsOf(o) > 0
          THEN HasPair(orders[o].order_number, "COGS", "Inventory", CogsOf(o))
          ELSE RowsOf(orders[o].order_number, "COGS") = {}
       /\ RowsOf(orders[o].order_number,
                 IF Receipt(o) = "Cash" THEN "Accounts Receivable" ELSE "Cash") = {}

\* The store holds an order paid on credit with a positive total and an order
\* whose total is zero.
C8_Witness ==
    /\ \E o \in DOMAIN orders : orders[o].payment_method = "credit" /\ orders[o].total > 0
    /\ \E o \in DOMAIN orders : orders[o].total = 0

\* This state carries the answer to an accepted checkout.
Accepted == response.op = "checkout" /\ response.status = 201

\* The subtotal of order o from the prices of the catalog.
SubtotalOf(o) ==
    SumSeq([i \in DOMAIN ItemsOf(o) |->
              Normalize(Normalize(products[ItemsOf(o)[i].product_id].sell_price)
                        * ItemsOf(o)[i].quantity)])

\* C9: for an accepted checkout the total persisted and returned is
\* normalize(subtotal - discount + tax), with subtotal the sum of the per-line
\* normalize(unit_price x quantity) and discount and tax the normalized inputs,
\* and it is >= 0.
C9_TotalFormula ==
    Accepted =>
       LET b == response.body
           o == b.order_id
       IN  /\ b.subtotal = SubtotalOf(o)
           /\ b.total = Normalize(SubtotalOf(o) - Normalize(response.req.discount)
                                  + Normalize(response.req.tax))
           /\ b.total >= 0
           /\ orders[o].total = b.total
           /\ orders[o].subtotal = b.subtotal

\* A checkout whose discount and tax both had to be rounded was accepted with a
\* positive total.
C9_Witness ==
    /\ Accepted
    /\ response.req.discount = 25 /\ response.req.tax = 14
    /\ response.body.total > 0

\* C10: for an accepted checkout the returned cogs is the sum over its lines of
\* normalize(unit_cost x quantity) at the product's cost price, and the returned
\* gross_profit is normalize(total - cogs).
C10_CogsAndProfit ==
    Accepted =>
       LET b == response.body
           its == ItemsOf(b.order_id)
       IN  /\ b.cogs = SumSeq([i \in DOMAIN its |->
                          Normalize(Normalize(products[its[i].product_id].cost_price)
                                    * its[i].quantity)])
           /\ b.gross_profit = Normalize(b.total - b.cogs)

\* A two-line checkout sold below cost was accepted.
C10_Witness ==
    /\ Accepted
    /\ Len(response.body.items) = 2
    /\ response.body.cogs > 0
    /\ response.body.gross_profit <= 0

\* The items and the sale movements of order o for product p, after this step.
NewItems(o, p) ==
    { i \in DOMAIN order_items' :
        order_items'[i].order_id = o /\ order_items'[i].product_id = p }

NewSales(o, p) ==
    { m \in DOMAIN movements' :
        /\ movements'[m].ref_type = "order" /\ movements'[m].ref_id = o
        /\ movements'[m].product_id = p }

\* C11: with requests handled one after the other, the commit of a checkout
\* lowers the stock_qty of each ordered product by its coalesced quantity and
\* writes for it exactly one OrderItem (quantity, unit price and unit cost of the
\* product) and exactly one movement of kind sale with quantity_change =
\* -quantity, ref_type order and ref_id the id of the new order; products not
\* ordered keep their stock and get no row.
C11_SalePerProduct ==
    [][\A s \in Sessions :
          CheckoutCommitted(s) =>
             LET o == Len(orders')
                 items == response'.req.items
             IN  /\ response'.body.order_id = o
                 /\ \A p \in Products :
                       LET q == QtyOf(items, p)
                           n == IF q > 0 THEN 1 ELSE 0
                       IN  /\ products'[p].stock_qty = products[p].stock_qty - q
                           /\ Cardinality(NewItems(o, p)) = n
                           /\ Cardinality(NewSales(o, p)) = n
                           /\ \A i \in NewItems(o, p) :
                                 /\ i > Len(order_items)
                                 /\ order_items'[i].quantity = q
                                 /\ order_items'[i].unit_price
                                       = Normalize(products[p].sell_price)
                                 /\ order_items'[i].cost_price
                                       = Normalize(products[p].cost_price)
                           /\ \A m \in NewSales(o, p) :
                                 /\ m > Len(movements)
                                 /\ movements'[m].movement_type = "sale"
                                 /\ movements'[m].quantity_change = -q
                 /\ Len(order_items') = Len(order_items)
                       + Cardinality({p \in Products : QtyOf(items, p) > 0})
                 /\ Len(movements') = Len(movements)
                       + Cardinality({p \in Products : QtyOf(items, p) > 0})]_vars

\* A checkout naming one product on two lines was accepted and emptied its stock.
C11_Witness ==
    /\ Accepted
    /\ Len(response.req.items) = 2
    /\ response.req.items[1].product_id = response.req.items[2].product_id
    /\ products[response.req.items[1].product_id].stock_qty = 0

\* This step answers a checkout request.
CheckoutAnswered == response = NoResponse /\ response'.op = "checkout"

\* The ids a request names that are no active product of the store, each once,
\* in the order the request first names them.
MissingOf(items) ==
    LET ids == [k \in DOMAIN SummedLines(items) |-> SummedLines(items)[k].product_id]
    IN  SelectSeq(ids, LAMBDA p : ~(p \in Products /\ products[p].is_active))

\* C12: a valid checkout naming a product id that does not exist or is inactive
\* is answered 404 with the missing ids and changes nothing in the store; no such
\* request gets past the checks.
C12_MissingIs404 ==
    [][/\ (/\ CheckoutAnswered
           /\ CheckoutRequest_valid(response'.req)
           /\ ~AllKnown(response'.req.items)) =>
             /\ response'.status = 404
             /\ response'.body = MissingOf(response'.req.items)
             /\ UNCHANGED store
       /\ \A s \in Sessions :
             CheckoutAdmitted(s) => AllKnown(sess'[s].req.items)]_vars

\* A request of two lines, the first for a product in stock and the second for
\* an id the store does not hold, was answered 404.
C12_Witness ==
    /\ response.op = "checkout" /\ response.status = 404
    /\ Len(response.req.items) = 2
    /\ response.req.items[1].product_id \in Products
    /\ products[response.req.items[1].product_id].stock_qty
          >= response.req.items[1].quantity
    /\ response.body = <<response.req.items[2].product_id>>

\* The total of a request at the prices of the store, all its products being
\* known.
TotalOf(req) ==
    LET subtotal == SumSeq([k \in DOMAIN SummedLines(req.items) |->
                       Normalize(Normalize(products[SummedLines(req.items)[k].product_id].sell_price)
                                 * SummedLines(req.items)[k].quantity)])
    IN  Normalize(subtotal - Normalize(req.discount) + Normalize(req.tax))

NegativeTotal(req) ==
    /\ CheckoutRequest_valid(req)
    /\ AllKnown(req.items)
    /\ TotalOf(req) < 0

\* C13: a checkout whose total normalize(subtotal - discount + tax) is negative
\* is answered 400 and changes nothing in the store (when its lines are within
\* stock the 400 is the one of the total check); no such request gets past the
\* checks.
C13_NegativeTotalIs400 ==
    [][/\ (CheckoutAnswered /\ NegativeTotal(response'.req)) =>
             /\ response'.status = 400
             /\ ~Oversized(response'.req.items) => response'.body = "total"
             /\ UNCHANGED store
       /\ \A s \in Sessions :
             CheckoutAdmitted(s) => ~NegativeTotal(sess'[s].req)]_vars

\* A checkout within stock whose discount exceeds subtotal plus tax was answered
\* 400, the store holding an earlier order.
C13_Witness ==
    /\ response.op = "checkout" /\ response.status = 400 /\ response.body = "total"
    /\ response.req.discount > 0
    /\ ~Oversized(response.req.items)
    /\ orders # <<>>

\* This step answers an adjustment request.
AdjustAnswered == response = NoResponse /\ response'.op = "adjust"

\* This step lets the adjustment of session s past the checks.
AdjustAdmitted(s) == sess[s].pc = "idle" /\ sess'[s].pc = "pending"

\* The request is valid, names an active product and would take its stock below
\* zero.
BelowZero(req) ==
    /\ InventoryAdjustmentRequest_valid(req)
    /\ req.product_id \in Products
    /\ products[req.product_id].is_active
    /\ products[req.product_id].stock_qty + req.quantity_change < 0

\* C14: an adjustment with before_qty + quantity_change < 0 is answered 400 and
\* changes nothing in the store; no such request gets past the checks.
C14_BelowZeroIs400 ==
    [][/\ (AdjustAnswered /\ BelowZero(response'.req)) =>
             (response'.status = 400 /\ UNCHANGED store)
       /\ \A s \in Sessions : AdjustAdmitted(s) => ~BelowZero(sess'[s].req)]_vars

\* A reduction larger than the stock left of a product was answered 400, the
\* product still holding stock.
C14_Witness ==
    /\ response.op = "adjust" /\ response.status = 400
    /\ products[response.req.product_id].stock_qty > 0

\* This step commits an adjustment and answers it.
AdjustCommitted == AdjustAnswered /\ response'.status = 200

\* C15: with requests handled one after the other, an accepted adjustment sets
\* the stock_qty of its product to before_qty + quantity_change, before_qty being
\* the stock of the product until then, and returns the one InventoryMovement it
\* adds, which carries that before_qty and after_qty and is of kind restock for
\* quantity_change > 0 and adjustment for quantity_change < 0; no other stock
\* changes.
C15_AdjustmentApplied ==
    [][AdjustCommitted =>
          LET req == response'.req
              p == req.product_id
              mv == response'.body
          IN  /\ mv.before_qty = products[p].stock_qty
              /\ mv.after_qty = mv.before_qty + req.quantity_change
              /\ mv.quantity_change = req.quantity_change
              /\ mv.product_id = p
              /\ products'[p].stock_qty = mv.after_qty
              /\ \A q \in Products \ {p} : products'[q] = products[q]
              /\ movements' = Append(movements, mv)
              /\ req.quantity_change > 0 => mv.movement_type = "restock"
              /\ req.quantity_change < 0 => mv.movement_type = "adjustment"
              /\ UNCHANGED <<orders, order_items>>]_vars

\* A reduction of a stock that a sale had lowered before was accepted.
C15_Witness ==
    /\ response.op = "adjust" /\ response.status = 200
    /\ response.body.movement_type = "adjustment"
    /\ \E m \in Movements :
          /\ movements[m].movement_type = "sale"
          /\ movements[m].product_id = response.req.product_id

\* The value of an adjustment at the cost price of its product.
AdjustValue(req) ==
    Normalize(Normalize(products[req.product_id].cost_price) * Abs(req.quantity_change))

\* The account an adjustment is booked against.
CounterpartyOf(req) ==
    IF strip(req.counterparty_account) # ""
    THEN strip(req.counterparty_account)
    ELSE IF req.quantity_change > 0 THEN "Cash" ELSE "Inventory Shrinkage Expense"

\* The rows this step adds to the ledger.
NewRows == SubSeq(ledger', Len(ledger) + 1, Len(ledger'))

\* This step adds a debit row to account dr and a credit row to account cr, both
\* of the given amount and under one adjustment reference, and no other row.
PostsEntry(dr, cr, amount) ==
    /\ Len(ledger') = Len(ledger) + 2
    /\ SubSeq(ledger', 1, Len(ledger)) = ledger
    /\ \E r \in TxRefs' :
          /\ r[1] = "INV"
          /\ Range(NewRows) =
                { [tx_ref |-> r, account |-> dr, direction |-> "debit", amount |-> amount],
                  [tx_ref |-> r, account |-> cr, direction |-> "credit", amount |-> amount] }

AdjustEntry(req) ==
    IF req.quantity_change > 0
    THEN PostsEntry("Inventory", CounterpartyOf(req), AdjustValue(req))
    ELSE PostsEntry(CounterpartyOf(req), "Inventory", AdjustValue(req))

\* C16 as stated: an accepted adjustment posts one double entry of
\* normalize(unit_cost x |quantity_change|), debit Inventory and credit the
\* counterparty for an increase, the reverse for a decrease, the counterparty
\* being the caller's account when non-empty after trimming, else Cash for an
\* increase and Inventory Shrinkage Expense for a decrease.
C16_AdjustmentPostsEntry ==
    [][AdjustCommitted => AdjustEntry(response'.req)]_vars

\* C16, amended: the entry is posted when its value is positive; an adjustment
\* of a product whose cost price normalizes to zero adds no ledger row.
C16_PositiveValuePosted ==
    [][AdjustCommitted =>
          IF AdjustValue(response'.req) > 0
          THEN AdjustEntry(response'.req)
          ELSE ledger' = ledger]_vars

\* A reduction booked against a caller's account sent with blanks around it was
\* accepted and its debit row carries the trimmed name.
C16_Witness ==
    /\ response.op = "adjust" /\ response.status = 200
    /\ response.req.counterparty_account = " Accounts Payable "
    /\ \E l \in DOMAIN ledger :
          ledger[l].account = "Accounts Payable" /\ ledger[l].direction = "debit"

\* The request is valid and names no active product of the store.
UnknownProduct(req) ==
    /\ InventoryAdjustmentRequest_valid(req)
    /\ ~(req.product_id \in Products /\ products[req.product_id].is_active)

\* C17: an adjustment naming a product id that does not exist or is inactive is
\* answered 404 and changes nothing in the store; no such request gets past the
\* checks.
C17_UnknownProductIs404 ==
    [][/\ (AdjustAnswered /\ UnknownProduct(response'.req)) =>
             (response'.status = 404 /\ UNCHANGED store)
       /\ \A s \in Sessions : AdjustAdmitted(s) => ~UnknownProduct(sess'[s].req)]_vars

\* An adjustment for an id beyond the products registered was answered 404, the
\* store holding a product and a movement.
C17_Witness ==
    /\ response.op = "adjust" /\ response.status = 404
    /\ response.req.product_id > Len(products)
    /\ products # <<>> /\ movements # <<>>

\* C18: an adjustment with quantity_change = 0 is answered 422, the validation
\* error, whatever product it names, without entering the handler: the store
\* and the sessions are as before; no request with quantity_change = 0 gets past
\* the checks and no movement with quantity_change = 0 is ever in the store.
C18_ZeroChangeIs422 ==
    [][/\ (AdjustAnswered /\ response'.req.quantity_change = 0) =>
             (response'.status = 422 /\ UNCHANGED <<store, sess, writer>>)
       /\ \A s \in Sessions : AdjustAdmitted(s) => sess'[s].req.quantity_change # 0
       /\ \A m \in DOMAIN movements' : movements'[m].quantity_change # 0]_vars

\* An adjustment of 0 for a product of the store was answered 422, the store
\* holding an earlier adjustment.
C18_Witness ==
    /\ response.op = "adjust" /\ response.status = 422
    /\ response.req.quantity_change = 0
    /\ response.req.product_id \in Products
    /\ \E m \in Movements : movements[m].ref_type = "manual"

\* The debit rows the ledger holds under reference r; an adjustment posts at
\* most one.
DebitRows(r) ==
    { l \in DOMAIN ledger : ledger[l].tx_ref = r /\ ledger[l].direction = "debit" }

\* C19: the references generated are collision-free: no two orders of the store
\* carry the same order number, and no two committed adjustments share a tx_ref
\* (no adjustment reference has the rows of two adjustments under it), also for
\* overlapping requests and for requests within one clock reading.
C19_RefsCollisionFree ==
    /\ \A i, j \in DOMAIN orders :
          i # j => orders[i].order_number # orders[j].order_number
    /\ \A r \in TxRefs : r[1] = "INV" => Cardinality(DebitRows(r)) <= 1

\* The answer is the error of a uniqueness conflict that the handler let through.
UnhandledConflict == response.status = 500 /\ response.body = "IntegrityError"

\* C20: a uniqueness conflict of the store (a SKU already registered, an
\* order_number already used) is caught and answered with the conflict error,
\* 409, with nothing of the request left in the store; it is never answered as
\* an unhandled storage exception.
C20_ConflictsCaught ==
    /\ ~UnhandledConflict
    /\ \A i, j \in Products : i # j => products[i].sku # products[j].sku
    /\ (response.op = "product" /\ response.status = 201) =>
          products[response.body.id].sku = response.req.sku

\* This step answers a registration.
ProductAnswered == response = NoResponse /\ response'.op = "product"

SkuTaken(sku) == \E i \in Products : products[i].sku = sku

\* C21: a valid registration whose SKU is already in the catalog is answered 409
\* and changes nothing in the store; one whose SKU is new is answered 201 and
\* adds the product; after every step no two products share a SKU, whatever
\* requests overlap.
C21_DuplicateSkuIs409 ==
    [][/\ (ProductAnswered /\ ProductCreate_valid(response'.req)) =>
             IF SkuTaken(response'.req.sku)
             THEN response'.status = 409 /\ UNCHANGED store
             ELSE /\ response'.status = 201
                  /\ Len(products') = Len(products) + 1
                  /\ SubSeq(products', 1, Len(products)) = products
                  /\ products'[Len(products')].sku = response'.req.sku
       /\ \A i, j \in DOMAIN products' :
             i # j => products'[i].sku # products'[j].sku]_vars

\* A second registration of a SKU was answered 409 while a checkout of the
\* product registered first was under way.
C21_Witness ==
    /\ response.op = "product" /\ response.status = 409
    /\ \E s \in Sessions : sess[s].pc \in {"added", "flushed"}

\* Amounts a posting is tried with: negative, zero, positive below and at the
\* rounding step, and positive with a fraction of a step.
PostingAmounts == {-10, -4, 0, 4, 5, 10, 25}

\* What a posting of amount a adds to the ledger.
PostingOf(a) == record_double_entry(<<"ORD", 1>>, "Cash", "Sales Revenue", a)

\* C22: a posting with amount <= 0 writes no row, any other posting writes one
\* debit row and one credit row, both of the normalized amount; every row of
\* the ledger has amount > 0.
C22_NoRowWithoutAmount ==
    /\ \A a \in PostingAmounts :
          PostingOf(a) =
             IF a <= 0 THEN <<>>
             ELSE << [tx_ref |-> <<"ORD", 1>>, account |-> "Cash",
                      direction |-> "debit", amount |-> Normalize(a)],
                     [tx_ref |-> <<"ORD", 1>>, account |-> "Sales Revenue",
                      direction |-> "credit", amount |-> Normalize(a)] >>
    /\ \A l \in DOMAIN ledger : ledger[l].amount > 0

\* The store holds an order of total zero, whose cost of goods was posted.
C22_Witness ==
    \E o \in DOMAIN orders :
       /\ orders[o].total = 0
       /\ RowsOf(orders[o].order_number, "COGS") # {}
       /\ RowsOf(orders[o].order_number, "Sales Revenue") = {}

\* start_date and end_date of a ledger query: <<>> when absent, <<d>> for day d.
DateArgs == {<<>>, <<0>>, <<1>>}

\* The rows the date filter of list_ledger and trial_balance selects:
\* tx_date >= day_start(start_date) and tx_date <= day_end(end_date).
ledger_in_range(start_date, end_date) ==
    { i \in DOMAIN ledger :
        /\ start_date # <<>> => tx_date(i) >= start_date[1]
        /\ end_date # <<>> => tx_date(i) <= end_date[1] }

\* The postings in the ledger: posting k is the rows 2k-1 (debit) and 2k (credit).
Postings == 1..(Len(ledger) \div 2)

\* C23: the debit row and the credit row of one posting carry the same
\* tx_date, so every date range of the ledger and of the trial balance takes
\* both rows of a posting or neither.
C23_PostingSharesDate ==
    \A k \in Postings :
       /\ ledger[2 * k - 1].tx_ref = ledger[2 * k].tx_ref
       /\ tx_date(2 * k - 1) = tx_date(2 * k)
       /\ \A start_date, end_date \in DateArgs :
             (2 * k - 1) \in ledger_in_range(start_date, end_date)
                <=> (2 * k) \in ledger_in_range(start_date, end_date)

\* s is the beginning of t.
IsPrefix(s, t) == Len(s) <= Len(t) /\ SubSeq(t, 1, Len(s)) = s

\* C24: ledger entries, movements, orders and order items are append-only: no
\* step changes or removes a stored row, and the unit price and unit cost of
\* an order item stay as they were recorded.
C24_AppendOnly ==
    [][/\ IsPrefix(ledger, ledger')
       /\ IsPrefix(movements, movements')
       /\ IsPrefix(orders, orders')
       /\ IsPrefix(order_items, order_items')
       /\ \A i \in DOMAIN order_items :
             /\ order_items'[i].unit_price = order_items[i].unit_price
             /\ order_items'[i].cost_price = order_items[i].cost_price]_vars

\* An adjustment was committed after a sale of the same product.
C24_Witness ==
    \E i, j \in Movements :
       /\ i < j
       /\ movements[i].ref_type = "order"
       /\ movements[j].ref_type = "manual"
       /\ movements[i].product_id = movements[j].product_id
       /\ order_items # <<>> /\ ledger # <<>>

\* The movements a step appends.
NewMovements == SubSeq(movements', Len(movements) + 1, Len(movements'))

\* The movements a step appends for product p.
NewMovementsOf(p) == {i \in DOMAIN NewMovements : NewMovements[i].product_id = p}

\* The step is the commit of a checkout or of an adjustment.
CommitStep ==
    /\ response = NoResponse
    /\ \/ response'.op = "checkout" /\ response'.status = 201
       \/ response'.op = "adjust" /\ response'.status = 200

\* C25: a product's stock_qty changes only in the commit of a checkout or of
\* an adjustment, and such a commit changes the stock of a product exactly when
\* it appends a movement for it, one movement per product, whose before_qty and
\* after_qty are the stock before and after the commit.
C25_StockChangesWithMovement ==
    [][/\ \A p \in Products :
             /\ p \in DOMAIN products'
             /\ products'[p].stock_qty # products[p].stock_qty
                   <=> NewMovementsOf(p) # {}
             /\ NewMovementsOf(p) # {} =>
                   /\ CommitStep
                   /\ Cardinality(NewMovementsOf(p)) = 1
                   /\ \A i \in NewMovementsOf(p) :
                         /\ NewMovements[i].before_qty = products[p].stock_qty
                         /\ NewMovements[i].after_qty = products'[p].stock_qty
       /\ \A i \in DOMAIN NewMovements : NewMovements[i].product_id \in Products
       /\ Len(movements') >= Len(movements)]_vars

\* A checkout with two lines of one product was committed: one movement of
\* two units.
C25_Witness ==
    /\ Accepted
    /\ Len(response.req.items) = 2
    /\ \E i \in Movements :
          /\ movements[i].quantity_change = -2
          /\ movements[i].ref_type = "order"
          /\ products[movements[i].product_id].stock_qty = movements[i].after_qty

\* The active products with a stock above their min_stock.
WellStocked == {p \in Products : products[p].is_active
                                   /\ products[p].stock_qty > products[p].min_stock}

\* C26: GET /inventory/low-stock and GET /products?low_stock_only=true return
\* exactly the active products that are not well stocked in the committed
\* state, whatever requests are in flight.
C26_LowStockListing ==
    /\ low_stock_products = {p \in Products : products[p].is_active} \ WellStocked
    /\ list_products(TRUE, FALSE) = low_stock_products
    /\ list_products(FALSE, FALSE) = low_stock_products \cup WellStocked

\* A sale has brought product 1 down to its min_stock while product 2 was
\* restocked above its own.
C26_Witness ==
    /\ \E i \in Movements : /\ movements[i].product_id = 1
                              /\ movements[i].movement_type = "sale"
                              /\ movements[i].before_qty > products[1].min_stock
    /\ 2 \in Products
    /\ low_stock_products = {1}
    /\ WellStocked = {2}

\* C27: whatever the interleaving of checkouts and adjustments, once all of
\* them have finished the stock of every product is its stock at registration
\* plus the quantity_change of its committed movements.
C27_NoLostUpdate ==
    Quiet => \A p \in Products :
                products[p].stock_qty = RegisteredStock(p) + MovedQty(p)

\* The rows this step posts to an account.
RowsPostedTo(account) == {i \in DOMAIN NewRows : NewRows[i].account = account}

PairSize(amount) == IF amount > 0 THEN 2 ELSE 0

\* The order items this step appends and the cost of their goods.
NewOrderItems == SubSeq(order_items', Len(order_items) + 1, Len(order_items'))

NewCogs ==
    Normalize(SumSeq([i \in DOMAIN NewOrderItems |-> NewOrderItems[i].line_cost_total]))

\* C28: a committed transaction writes ledger rows exactly for its positive
\* amounts: an accepted checkout posts to Sales Revenue iff total > 0 and to
\* COGS iff cogs > 0, a committed adjustment posts iff its value is positive;
\* with an amount of zero the order, the stock change and the movement are
\* committed all the same.
C28_RowsIffPositive ==
    [][/\ (CheckoutAnswered /\ response'.status = 201) =>
             LET o == Len(orders) + 1 IN
             /\ Len(orders') = o
             /\ Len(movements') > Len(movements)
             /\ NewOrderItems # <<>>
             /\ RowsPostedTo("Sales Revenue") # {} <=> orders'[o].total > 0
             /\ RowsPostedTo("COGS") # {} <=> NewCogs > 0
             /\ Len(NewRows) = PairSize(orders'[o].total) + PairSize(NewCogs)
       /\ AdjustCommitted =>
             /\ Len(movements') = Len(movements) + 1
             /\ products'[response'.req.product_id].stock_qty
                   # products[response'.req.product_id].stock_qty
             /\ Len(NewRows) = PairSize(AdjustValue(response'.req))]_vars

\* A checkout with total 0 and cogs 0 was committed after an adjustment of
\* value 0: the store has an order and two movements and no ledger row.
C28_Witness ==
    /\ Accepted
    /\ response.body.total = 0 /\ response.body.cogs = 0
    /\ Len(orders) = 1
    /\ \E i \in Movements : movements[i].ref_type = "manual"
    /\ ledger = <<>>

\* The request names active products only, asks of none more than its stock
\* and has a total that is not negative.
Acceptable(req) ==
    /\ AllKnown(req.items)
    /\ ~Oversized(req.items)
    /\ TotalOf(req) >= 0

\* C29: a valid checkout gets past the checks exactly when it is acceptable:
\* none that is turned down is, every one let through is; the commit of an
\* accepted checkout takes the requested quantity off each stock, so that a
\* request for all that is left leaves 0.
C29_AcceptedIffAcceptable ==
    [][/\ (CheckoutRejected /\ CheckoutRequest_valid(response'.req)) =>
             /\ ~Acceptable(response'.req)
             /\ response'.status \in {400, 404}
       /\ (CheckoutRejected /\ ~CheckoutRequest_valid(response'.req)) =>
             response'.status = 422
       /\ \A s \in Sessions :
             CheckoutAdmitted(s) =>
                CheckoutRequest_valid(sess'[s].req) /\ Acceptable(sess'[s].req)
       /\ (CheckoutAnswered /\ response'.status = 201) =>
             \A p \in Products :
                /\ products'[p].stock_qty
                      = products[p].stock_qty - QtyOf(response'.req.items, p)
                /\ products'[p].stock_qty >= 0]_vars

\* A checkout of two lines asking together for the whole stock of a product
\* was accepted and the stock is 0.
C29_Witness ==
    /\ Accepted
    /\ \E p \in Products :
          /\ QtyOf(response.req.items, p) = RegisteredStock(p)
          /\ QtyOf(response.req.items, p) = 2
          /\ products[p].stock_qty = 0
          /\ movements = <<[product_id |-> p, movement_type |-> "sale",
                            quantity_change |-> -2, before_qty |-> 2, after_qty |-> 0,
                            ref_type |-> "order", ref_id |-> response.body.order_id]>>

\* C30: of the rules a valid checkout breaks, the answer reports the first in
\* the order missing or inactive product (404), insufficient stock (400),
\* negative total (400); the answer is given before the request has added or
\* written anything: the store, the sessions and the write lock are as before.
C30_RejectionOrder ==
    [][(CheckoutRejected /\ CheckoutRequest_valid(response'.req)) =>
          LET req == response'.req IN
          /\ IF ~AllKnown(req.items)
             THEN response'.status = 404 /\ response'.body = MissingOf(req.items)
             ELSE IF Oversized(req.items)
             THEN response'.status = 400 /\ response'.body = "stock"
             ELSE /\ TotalOf(req) < 0
                  /\ response'.status = 400 /\ response'.body = "total"
          /\ UNCHANGED <<store, sess, writer, clock>>]_vars

\* A checkout that asks for more than the stock and whose total is negative
\* was answered with the 400 of the stock check.
C30_Witness ==
    /\ response.op = "checkout" /\ response.status = 400
    /\ response.body = "stock"
    /\ NegativeTotal(response.req)
    /\ Oversized(response.req.items)

\* The sum of the amounts of the ledger rows of the orders posted to one of
\* the accounts in the given direction.
OrderRowsTotal(accounts, direction) ==
    SumSeq([l \in DOMAIN ledger |->
              IF /\ ledger[l].tx_ref[1] = "ORD"
                 /\ ledger[l].account \in accounts
                 /\ ledger[l].direction = direction
              THEN ledger[l].amount ELSE 0])

\* C31: with requests handled one after the other, over the ledger rows of the
\* orders: the totals of the orders sum to the Sales Revenue credits and to
\* the Cash and Accounts Receivable debits, the line_cost_total of the order
\* items sum to the COGS debits and to the Inventory credits, and the subtotal
\* of each order is the sum of the line_total of its items.
C31_OrdersMatchLedger ==
    /\ SumSeq([o \in DOMAIN orders |-> orders[o].total])
          = OrderRowsTotal({"Sales Revenue"}, "credit")
    /\ SumSeq([o \in DOMAIN orders |-> orders[o].total])
          = OrderRowsTotal({"Cash", "Accounts Receivable"}, "debit")
    /\ SumSeq([i \in DOMAIN order_items |-> order_items[i].line_cost_total])
          = OrderRowsTotal({"COGS"}, "debit")
    /\ SumSeq([i \in DOMAIN order_items |-> order_items[i].line_cost_total])
          = OrderRowsTotal({"Inventory"}, "credit")
    /\ \A o \in DOMAIN orders :
          orders[o].subtotal
             = SumSeq([i \in DOMAIN ItemsOf(o) |-> ItemsOf(o)[i].line_total])

\* The store holds an order of two items with a positive total and cost, and
\* the ledger also holds the rows of an adjustment paid from Cash.
C31_Witness ==
    /\ \E o \in DOMAIN orders : orders[o].total > 0 /\ Len(ItemsOf(o)) = 2
    /\ OrderRowsTotal({"COGS"}, "debit") > 0
    /\ \E l \in DOMAIN ledger :
          ledger[l].tx_ref[1] = "INV" /\ ledger[l].account \in {"Cash", "Inventory"}

\* A trial balance whose credit column sums the rows of both directions.
trial_balance_credit_sums_all(start_date, end_date) ==
    LET rows == ledger_in_range(start_date, end_date)
        side(a, dirs) == SumSeq([i \in DOMAIN ledger |->
                            IF /\ i \in rows
                               /\ ledger[i].account = a
                               /\ ledger[i].direction \in dirs
                            THEN ledger[i].amount ELSE 0])
    IN  [a \in {ledger[i].account : i \in rows} |->
            [account |-> a,
             debit |-> to_money(side(a, {"debit"})),
             credit |-> to_money(side(a, {"debit", "credit"})),
             balance |-> to_money(to_money(side(a, {"debit"}))
                                  - to_money(side(a, {"debit", "credit"})))]]

\* GET /bookkeeping/trial-balance: one item per account with a row in the date
\* range, the sums of its debit and of its credit rows and their difference.
trial_balance(start_date, end_date) ==
    LET rows == ledger_in_range(start_date, end_date)
        side(a, direction) == SumSeq([i \in DOMAIN ledger |->
                                 IF /\ i \in rows
                                    /\ ledger[i].account = a
                                    /\ ledger[i].direction = direction
                                 THEN ledger[i].amount ELSE 0])
    IN  [a \in {ledger[i].account : i \in rows} |->
            [account |-> a,
             debit |-> to_money(side(a, "debit")),
             credit |-> to_money(side(a, "credit")),
             balance |-> to_money(to_money(side(a, "debit"))
                                  - to_money(side(a, "credit")))]]

\* The sum of f over the set S.
RECURSIVE SetSum(_, _)
SetSum(f, S) ==
    IF S = {} THEN 0
    ELSE LET x == CHOOSE x \in S : TRUE IN f[x] + SetSum(f, S \ {x})

\* C32: once the answer of a request has been taken, the trial balance
\* without a date filter has an item for every account of the ledger, each
\* with balance = debit - credit; over all accounts the debits sum to the
\* credits and the balances to zero.
C32_TrialBalanceBalances ==
    LET tb == trial_balance(<<>>, <<>>)
        accounts == {ledger[l].account : l \in DOMAIN ledger}
    IN  Ready =>
        /\ DOMAIN tb = accounts
        /\ \A a \in accounts :
              /\ tb[a].account = a
              /\ tb[a].balance = tb[a].debit - tb[a].credit
        /\ SetSum([a \in accounts |-> tb[a].debit], accounts)
              = SetSum([a \in accounts |-> tb[a].credit], accounts)
        /\ SetSum([a \in accounts |-> tb[a].balance], accounts) = 0
        /\ SetSum([a \in accounts |-> tb[a].debit], accounts)
              = SumSeq([l \in DOMAIN ledger |->
                          IF ledger[l].direction = "debit" THEN ledger[l].amount ELSE 0])

\* The ledger holds the rows of a checkout and of an adjustment: Inventory is
\* credited by the one and debited by the other, Cash has a non-zero balance.
C32_Witness ==
    /\ \E l \in DOMAIN ledger : ledger[l].tx_ref[1] = "ORD" /\ ledger[l].account = "Inventory"
    /\ \E l \in DOMAIN ledger : ledger[l].tx_ref[1] = "INV" /\ ledger[l].account = "Inventory"
                                 /\ ledger[l].direction = "debit"
    /\ Len(ledger) = 6
    /\ "Cash" \in DOMAIN trial_balance(<<>>, <<>>)
    /\ trial_balance(<<>>, <<>>)["Cash"].balance # 0

\* The movements of product p, in commit order.
MovesOf(p) == SelectSeq(movements, LAMBDA mv : mv.product_id = p)

\* C33: with requests handled one after the other, the movements of a product
\* form a chain: the first starts from the stock at registration, each later
\* one from the after_qty of the one before, and the last ends at the current
\* stock_qty.
C33_MovementChain ==
    \A p \in Products :
       LET ms == MovesOf(p) IN
       ms # <<>> =>
          /\ ms[1].before_qty = RegisteredStock(p)
          /\ \A i \in 2..Len(ms) : ms[i].before_qty = ms[i - 1].after_qty
          /\ ms[Len(ms)].after_qty = products[p].stock_qty

\* A product has a sale followed by an adjustment that does not bring its
\* stock back to the registered one.
C33_Witness ==
    \E p \in Products :
       /\ Len(MovesOf(p)) = 2
       /\ MovesOf(p)[1].movement_type = "sale"
       /\ MovesOf(p)[2].movement_type \in {"restock", "adjustment"}
       /\ MovesOf(p)[2].after_qty # RegisteredStock(p)

\* The products a committed request may change the stock of.
Targets ==
    IF response'.op = "checkout" /\ response'.status = 201
    THEN {response'.req.items[i].product_id : i \in DOMAIN response'.req.items}
    ELSE IF response'.op = "adjust" /\ response'.status = 200
    THEN {response'.req.product_id}
    ELSE {}

\* C34: a step changes of a product nothing but its stock_qty, and that only
\* for an active product that the checkout or adjustment being committed
\* names; products are never removed.
C34_OnlyTargetsChange ==
    [][\A p \in Products :
          /\ p \in DOMAIN products'
          /\ [products'[p] EXCEPT !.stock_qty = products[p].stock_qty] = products[p]
          /\ products'[p].stock_qty # products[p].stock_qty =>
                /\ response = NoResponse
                /\ p \in Targets
                /\ products[p].is_active]_vars

\* A checkout for the second of two products was committed: its stock went
\* down and the first product is as it was registered.
C34_Witness ==
    /\ Accepted
    /\ Len(products) = 2
    /\ \A i \in DOMAIN response.req.items : response.req.items[i].product_id = 2
    /\ products[2].stock_qty < RegisteredStock(2)
    /\ products[1].stock_qty = RegisteredStock(1)
    /\ RegisteredStock(1) # products[2].stock_qty

\* C35: from every store reached and for every request and clock reading
\* it may get, the checkout and adjust_inventory of app/routers give the answer
\* of those of app/main.py and leave the same products, orders, order items,
\* movements and ledger rows.
C35_RoutersAgreeWithMain ==
    (Quiet /\ Ready) =>
       \A now \in ClockReadings :
          /\ \A req \in CheckoutRequests : orders_checkout(req, now) = main_checkout(req, now)
          /\ \A req \in AdjustRequests :
                inventory_adjust_inventory(req, now) = main_adjust_inventory(req, now)

\* From this store both versions accept a checkout whose discount is rounded
\* up, turn another down and accept an adjustment.
C35_Witness ==
    /\ Quiet /\ Ready
    /\ ClockReadings = {1, MaxTx}
    /\ orders # <<>>
    /\ \E req \in CheckoutRequests :
          /\ req.discount = 25
          /\ orders_checkout(req, MaxTx).status = 201
          /\ main_checkout(req, MaxTx).status = 201
    /\ \E req \in CheckoutRequests : orders_checkout(req, 1).status = 500
    /\ \E req \in CheckoutRequests : orders_checkout(req, 1).status = 400
    /\ \E req \in AdjustRequests :
          /\ inventory_adjust_inventory(req, 1).status = 200
          /\ inventory_adjust_inventory(req, 1).ledger # ledger

\* The spellings of credit and the methods that are blank.
CreditSpellings == {"credit", "Credit", " CREDIT "}

BlankMethods == {"", "  "}

\* The debit rows this step posts to an account.
DebitsPostedTo(account) ==
    {i \in RowsPostedTo(account) : NewRows[i].direction = "debit"}

\* C36: a checkout paid by any spelling of credit debits Accounts Receivable,
\* one paid by any other method that is not blank debits Cash, and one whose
\* method is blank is answered 422 and changes nothing; no checkout with a
\* blank method gets past validation.
C36_PaymentMethodNormalized ==
    [][/\ (CheckoutAnswered /\ response'.req.payment_method \in BlankMethods) =>
             /\ response'.status = 422
             /\ UNCHANGED <<store, sess, writer>>
       /\ \A s \in Sessions :
             CheckoutAdmitted(s) => sess'[s].req.payment_method \notin BlankMethods
       /\ (CheckoutAnswered /\ response'.status = 201) =>
             LET credit == response'.req.payment_method \in CreditSpellings
                 total == orders'[Len(orders) + 1].total
             IN  /\ total > 0
                 /\ Cardinality(DebitsPostedTo(IF credit THEN "Accounts Receivable"
                                                ELSE "Cash")) = 1
                 /\ DebitsPostedTo(IF credit THEN "Cash" ELSE "Accounts Receivable") = {}
                 /\ \A i \in DebitsPostedTo("Accounts Receivable")
                              \cup DebitsPostedTo("Cash") : NewRows[i].amount = total
                 /\ response'.body.payment_method
                       = orders'[Len(orders) + 1].payment_method
                 /\ credit <=> response'.body.payment_method = "credit"]_vars

\* A checkout paid by " CREDIT " was accepted after one paid by " QRIS ": the
\* ledger has a debit to Accounts Receivable and one to Cash.
C36_Witness ==
    /\ Accepted
    /\ response.req.payment_method = " CREDIT "
    /\ Len(orders) = 2
    /\ orders[1].payment_method = "qris"
    /\ \E l \in DOMAIN ledger :
          ledger[l].account = "Accounts Receivable" /\ ledger[l].direction = "debit"
    /\ \E l \in DOMAIN ledger :
          ledger[l].account = "Cash" /\ ledger[l].direction = "debit"

=============================================================================
